---- MODULE Spec2Model ----
(***************************************************************************)
(* The QuestionInput component in its two revisions:                       *)
(*   "remote"  src/unnamed/part_000  (upload to the file store, send the   *)
(*             returned reference id)                                      *)
(*   "inline"  src/frontend/src/components/QuestionInput/QuestionInput.tsx *)
(*             (read the file locally as a data URL, send it inline)       *)
(* One instance is mounted; impl says which revision it is.                *)
(*                                                                         *)
(* JavaScript strings that the code inspects (the draft, file names, the   *)
(* allow-list, media types) are sequences of one-character strings.        *)
(* A nullable value is a sequence of length 0 (null / undefined) or 1.     *)
(***************************************************************************)
EXTENDS Naturals, Sequences, FiniteSets, TLC

VARIABLES
  impl,                  \* which revision is mounted
  disabled,              \* prop disabled
  clearOnSend,           \* prop clearOnSend
  conversationId,        \* prop conversationId
  allowedFileExtensions, \* frontendSettings.allowed_file_extensions || ""
  OYD_ENABLED,           \* frontendSettings.oyd_enabled || false
  question,              \* useState('')
  base64File,            \* useState(null)
  fileName,              \* useState(null)
  selectedFile,          \* useState(null)
  uploadedFileId,        \* useState(null)      (remote only)
  uploadedFileName,      \* useState(null)      (remote only)
  isUploading,           \* useState(false)     (remote only)
  fileInputValue,        \* the <input type="file" id="fileInput"> selection
  pending,               \* suspended handleFileUpload calls / FileReaders
  sendCount,             \* how many times onSend has been called
  lastSent,              \* the arguments of the latest onSend call
  last                   \* the event handled last

vars == << impl, disabled, clearOnSend, conversationId, allowedFileExtensions,
           OYD_ENABLED, question, base64File, fileName, selectedFile,
           uploadedFileId, uploadedFileName, isUploading, fileInputValue,
           pending, sendCount, lastSent, last >>

props == << impl, clearOnSend, conversationId, allowedFileExtensions, OYD_ENABLED >>

(***************************************************************************)
(* Bounds                                                                  *)
(***************************************************************************)
MaxSends == 2       \* onSend calls in one run
MaxInflight == 2    \* suspended uploads / file reads at one time

(***************************************************************************)
(* JavaScript values                                                       *)
(***************************************************************************)
null == << >>
Some(x) == << x >>
Val(o) == o[1]

\* JS truthiness of a nullable string: null, undefined and "" are falsy
Truthy(o) == o # null /\ Val(o) # << >>

\* JS truthiness of a nullable opaque token (reference id, data URL, File)
TruthyTok(o) == o # null /\ Val(o) # ""

WhiteSpace == { " ", "\t", "\n" }

RECURSIVE TrimStart(_)
TrimStart(s) ==
  IF s # << >> /\ Head(s) \in WhiteSpace THEN TrimStart(Tail(s)) ELSE s

RECURSIVE TrimEnd(_)
TrimEnd(s) ==
  IF s # << >> /\ s[Len(s)] \in WhiteSpace
  THEN TrimEnd(SubSeq(s, 1, Len(s) - 1)) ELSE s

\* String.prototype.trim
Trim(s) == TrimEnd(TrimStart(s))

UpperToLower ==
  ( "A" :> "a" @@ "B" :> "b" @@ "C" :> "c" @@ "D" :> "d" @@ "E" :> "e" @@
    "F" :> "f" @@ "G" :> "g" @@ "H" :> "h" @@ "I" :> "i" @@ "J" :> "j" @@
    "K" :> "k" @@ "L" :> "l" @@ "M" :> "m" @@ "N" :> "n" @@ "O" :> "o" @@
    "P" :> "p" @@ "Q" :> "q" @@ "R" :> "r" @@ "S" :> "s" @@ "T" :> "t" @@
    "U" :> "u" @@ "V" :> "v" @@ "W" :> "w" @@ "X" :> "x" @@ "Y" :> "y" @@
    "Z" :> "z" )

\* String.prototype.toLowerCase
ToLowerCase(s) ==
  [ i \in DOMAIN s |-> IF s[i] \in DOMAIN UpperToLower THEN UpperToLower[s[i]] ELSE s[i] ]

\* String.prototype.split(sep) for a one-character separator: never empty
RECURSIVE SplitFrom(_, _, _)
SplitFrom(s, sep, cur) ==
  IF s = << >> THEN << cur >>
  ELSE IF Head(s) = sep THEN << cur >> \o SplitFrom(Tail(s), sep, << >>)
  ELSE SplitFrom(Tail(s), sep, Append(cur, Head(s)))

Split(s, sep) == SplitFrom(s, sep, << >>)

\* Array.prototype.includes
Includes(arr, x) == \E i \in DOMAIN arr : arr[i] = x

\* String.prototype.startsWith
StartsWith(s, p) == Len(s) >= Len(p) /\ SubSeq(s, 1, Len(p)) = p

Remove(seq, i) == SubSeq(seq, 1, i - 1) \o SubSeq(seq, i + 1, Len(seq))

(***************************************************************************)
(* Inputs                                                                  *)
(***************************************************************************)
s_hi == << " ", "h", "i" >>
s_pdf == << "a", ".", "p", "d", "f" >>
s_png == << "B", ".", "P", "N", "G" >>
s_exe == << "x", ".", "e", "x", "e" >>
s_srv == << "s", ".", "p", "d", "f" >>
t_pdf == << "a", "p", "p", "/", "p", "d", "f" >>
t_png == << "i", "m", "a", "g", "e", "/", "p", "n", "g" >>
t_exe == << "a", "p", "p", "/", "e", "x", "e" >>

\* what the user can have in the text field
Drafts == { << >>, << " " >>, s_hi }

\* the files the user can pick: name, media type, content
Files ==
  { [ name |-> s_pdf, type |-> t_pdf, body |-> "pdf-bytes" ],
    [ name |-> s_png, type |-> t_png, body |-> "png-bytes" ],
    [ name |-> s_exe, type |-> t_exe, body |-> "exe-bytes" ] }

\* values of frontendSettings.allowed_file_extensions
AllowLists ==
  { << ".", "p", "d", "f", ",", ".", "p", "n", "g" >>, << >> }

\* the JSON bodies the file store answers a successful upload with
Replies ==
  { [ file_id |-> "f1", filename |-> s_srv ],
    [ file_id |-> "f2", filename |-> s_srv ] }

Keys == { "Enter", " ", "a" }

\* FileReader.readAsDataURL: the data URL of a file
DataURL(f) == << "data:", f.type, ";base64,", f.body >>

\* the record of an event: the handler that ran and, where it matters, its input
Ev(op, arg) == [ op |-> op, arg |-> arg ]

(***************************************************************************)
(* The initial state: the component as mounted                             *)
(***************************************************************************)
Init ==
  /\ impl \in { "remote", "inline" }
  /\ disabled \in BOOLEAN
  /\ clearOnSend \in BOOLEAN
  /\ conversationId \in { null, Some("c1") }
  /\ allowedFileExtensions \in AllowLists
  /\ OYD_ENABLED \in BOOLEAN
  /\ question = << >>
  /\ base64File = null
  /\ fileName = null
  /\ selectedFile = null
  /\ uploadedFileId = null
  /\ uploadedFileName = null
  /\ isUploading = FALSE
  /\ fileInputValue = null
  /\ pending = << >>
  /\ sendCount = 0
  /\ lastSent = null
  /\ last = Ev("mount", "")

(***************************************************************************)
(* Attachment validation (both revisions)                                  *)
(***************************************************************************)
\* the extension without .toLowerCase()
FileExtension_NoLowerCase(name) ==
  LET parts == Split(name, ".")
  IN  << "." >> \o parts[Len(parts)]

\* "." + file.name.split('.').pop()?.toLowerCase()
FileExtension(name) ==
  LET parts == Split(name, ".")
  IN  << "." >> \o ToLowerCase(parts[Len(parts)])

\* allowedFileExtensions.split(',')
AllowedExtensions == Split(allowedFileExtensions, ",")

\* allowedExtensions.includes(fileExtension)
IsAllowed(f) == Includes(AllowedExtensions, FileExtension(f.name))

(***************************************************************************)
(* What is rendered                                                        *)
(***************************************************************************)
\* the text field without its disabled attribute
TextFieldDisabled_Never == FALSE

\* <TextField disabled={isUploading}> (remote); never disabled (inline)
TextFieldDisabled == impl = "remote" /\ isUploading

\* the file input without its disabled attribute
FileInputDisabled_Never == FALSE

\* <input type="file" disabled={isUploading}> (remote); never disabled (inline)
FileInputDisabled == impl = "remote" /\ isUploading

\* {!OYD_ENABLED && ( <input type="file" ...> )}
FileInputRendered == ~OYD_ENABLED

\* {!isUploading && uploadedFileName && ( ... <button onClick={clearUploadedFile}> )}
ClearButtonRendered == impl = "remote" /\ ~isUploading /\ Truthy(uploadedFileName)

\* the browser fires change only when the selection of the control changes
ChangeFires(sel) == FileInputRendered /\ ~FileInputDisabled /\ sel # fileInputValue

\* the remote flag without || isUploading
sendQuestionDisabledRemote_NoUploading == disabled \/ Trim(question) = << >>

\* const sendQuestionDisabled = disabled || !question.trim() || isUploading
sendQuestionDisabledRemote == disabled \/ Trim(question) = << >> \/ isUploading

\* const sendQuestionDisabled = disabled || !question.trim()
sendQuestionDisabledInline == disabled \/ Trim(question) = << >>

\* {sendQuestionDisabled ? <SendDisabled> : <Send>}
sendQuestionDisabled ==
  IF impl = "remote" THEN sendQuestionDisabledRemote ELSE sendQuestionDisabledInline

(***************************************************************************)
(* sendQuestion                                                            *)
(***************************************************************************)
\* the guard with !question in place of !question.trim()
SendRefusedRemote_NoTrim == disabled \/ question = << >> \/ isUploading

\* the guard without || isUploading
SendRefusedRemote_NoUploading == disabled \/ Trim(question) = << >>

\* if (disabled || !question.trim() || isUploading) return      (remote)
SendRefusedRemote == disabled \/ Trim(question) = << >> \/ isUploading

\* the inline guard with !question in place of !question.trim()
SendRefusedInline_NoTrim == disabled \/ question = << >>

\* the inline guard without disabled ||
SendRefusedInline_NoDisabled == Trim(question) = << >>

\* if (disabled || !question.trim()) return                     (inline)
SendRefusedInline == disabled \/ Trim(question) = << >>

SendRefused == IF impl = "remote" THEN SendRefusedRemote ELSE SendRefusedInline

\* the file part built with the name of the selected file, not the store's
FileContentPartRemote_LocalName ==
  IF TruthyTok(uploadedFileId) /\ Truthy(uploadedFileName)
  THEN Some([ type |-> "file",
              file |-> [ file_id |-> Val(uploadedFileId), name |-> Val(selectedFile).name ] ])
  ELSE null

\* if (uploadedFileId && uploadedFileName) fileContentPart = {type:"file", file:{file_id, name}}
FileContentPartRemote ==
  IF TruthyTok(uploadedFileId) /\ Truthy(uploadedFileName)
  THEN Some([ type |-> "file",
              file |-> [ file_id |-> Val(uploadedFileId), name |-> Val(uploadedFileName) ] ])
  ELSE null

\* the inline part built as a file part whatever the media type is
FileContentPartInline_NoImageCase ==
  IF base64File # null /\ selectedFile # null /\ Truthy(fileName)
  THEN Some([ type |-> "file",
              file |-> [ url |-> Val(base64File), name |-> Val(fileName) ] ])
  ELSE null

\* if (base64File && selectedFile && fileName) image_url part or file part
FileContentPartInline ==
  IF base64File # null /\ selectedFile # null /\ Truthy(fileName)
  THEN IF StartsWith(Val(selectedFile).type, << "i", "m", "a", "g", "e", "/" >>)
       THEN Some([ type |-> "image_url", image_url |-> [ url |-> Val(base64File) ] ])
       ELSE Some([ type |-> "file",
                   file |-> [ url |-> Val(base64File), name |-> Val(fileName) ] ])
  ELSE null

FileContentPart == IF impl = "remote" THEN FileContentPartRemote ELSE FileContentPartInline

\* const questionTextPart = { type: "text", text: question }
QuestionTextPart == [ type |-> "text", text |-> question ]

\* the content always built as an array of parts
ContentForRequest_AlwaysParts ==
  IF FileContentPart # null
  THEN [ isArray |-> TRUE, parts |-> << QuestionTextPart, Val(FileContentPart) >> ]
  ELSE [ isArray |-> TRUE, parts |-> << QuestionTextPart >> ]

\* fileContentPart ? [questionTextPart, fileContentPart] : question.toString()
\* a ChatMessage["content"] is a string or an array of parts
ContentForRequest ==
  IF FileContentPart # null
  THEN [ isArray |-> TRUE, parts |-> << QuestionTextPart, Val(FileContentPart) >> ]
  ELSE [ isArray |-> FALSE, text |-> question ]

\* if (conversationId) onSend(content, conversationId) else onSend(content)
OnSendCall ==
  [ content |-> ContentForRequest,
    id |-> IF TruthyTok(conversationId) THEN conversationId ELSE null ]

\* the draft cleared whatever clearOnSend is
QuestionAfterSend_AlwaysCleared == << >>

\* if (clearOnSend) setQuestion('')
QuestionAfterSend == IF clearOnSend THEN << >> ELSE question

\* fileInput.value = "" at the end of sendQuestion (remote only)
FileInputAfterSend == IF impl = "remote" THEN null ELSE fileInputValue

\* the reset after onSend that leaves the reference id in place
UploadedFileIdAfterSend_Kept == uploadedFileId

\* setUploadedFileId(null) after onSend
UploadedFileIdAfterSend == null

\* sendQuestion as called from the handler op
sendQuestion(op) ==
  IF SendRefused
  THEN /\ last' = Ev(op, "refused")
       /\ UNCHANGED << question, base64File, fileName, selectedFile, uploadedFileId,
                       uploadedFileName, isUploading, fileInputValue, pending, sendCount, lastSent >>
  ELSE /\ sendCount' = sendCount + 1
       /\ lastSent' = Some(OnSendCall)
       /\ question' = QuestionAfterSend
       /\ base64File' = null
       /\ fileName' = null
       /\ selectedFile' = null
       /\ uploadedFileId' = UploadedFileIdAfterSend
       /\ uploadedFileName' = null
       /\ fileInputValue' = FileInputAfterSend
       /\ last' = Ev(op, "sent")
       /\ UNCHANGED << isUploading, pending >>

\* onClick={sendQuestion} on the send control
SendClick ==
  /\ sendCount < MaxSends
  /\ sendQuestion("click")
  /\ UNCHANGED << props, disabled >>

\* onKeyDown={e => (e.key === 'Enter' || e.key === ' ' ? sendQuestion() : null)}
SendKeyDown(key) ==
  /\ sendCount < MaxSends
  /\ IF key = "Enter" \/ key = " "
     THEN sendQuestion("sendKey")
     ELSE /\ last' = Ev("sendKey", "ignored")
          /\ UNCHANGED << question, base64File, fileName, selectedFile, uploadedFileId,
                          uploadedFileName, isUploading, fileInputValue, pending, sendCount, lastSent >>
  /\ UNCHANGED << props, disabled >>

\* the test without the isComposing conjunct
EnterSubmits_NoComposing(key, shiftKey, isComposing) ==
  key = "Enter" /\ ~shiftKey

\* ev.key === 'Enter' && !ev.shiftKey && !(ev.nativeEvent?.isComposing === true)
EnterSubmits(key, shiftKey, isComposing) ==
  key = "Enter" /\ ~shiftKey /\ ~isComposing

\* onKeyDown={onEnterPress} on the text field
onEnterPress(key, shiftKey, isComposing) ==
  /\ sendCount < MaxSends
  /\ ~TextFieldDisabled
  /\ IF EnterSubmits(key, shiftKey, isComposing)
     THEN sendQuestion("textKey")
     ELSE /\ last' = Ev("textKey", "ignored")
          /\ UNCHANGED << question, base64File, fileName, selectedFile, uploadedFileId,
                          uploadedFileName, isUploading, fileInputValue, pending, sendCount, lastSent >>
  /\ UNCHANGED << props, disabled >>

\* setQuestion(newValue || '')
onQuestionChange(newValue) ==
  /\ ~TextFieldDisabled
  /\ question' = IF Truthy(newValue) THEN Val(newValue) ELSE << >>
  /\ last' = Ev("change", "")
  /\ UNCHANGED << props, disabled, base64File, fileName, selectedFile, uploadedFileId,
                  uploadedFileName, isUploading, fileInputValue, pending, sendCount, lastSent >>

\* the host re-renders the component with another value of disabled
HostSetsDisabled ==
  /\ disabled' = ~disabled
  /\ last' = Ev("host", "")
  /\ UNCHANGED << props, question, base64File, fileName, selectedFile, uploadedFileId,
                  uploadedFileName, isUploading, fileInputValue, pending, sendCount, lastSent >>

(***************************************************************************)
(* handleFileUpload, remote revision                                       *)
(***************************************************************************)
\* the failure path that leaves the selected file and its displayed name in place
UploadFailedRemote_KeepsSelection(i) ==
  /\ uploadedFileId' = null
  /\ uploadedFileName' = null
  /\ base64File' = null
  /\ fileInputValue' = null
  /\ isUploading' = FALSE
  /\ pending' = Remove(pending, i)
  /\ UNCHANGED << fileName, selectedFile >>

\* the failure path that never calls setIsUploading(false)
UploadFailedRemote_NoFinally(i) ==
  /\ uploadedFileId' = null
  /\ uploadedFileName' = null
  /\ fileName' = null
  /\ selectedFile' = null
  /\ base64File' = null
  /\ fileInputValue' = null
  /\ isUploading' = isUploading
  /\ pending' = Remove(pending, i)

\* the catch block, the else branch after response.text(), then finally:
\* every file state to null, event.target.value = "", setIsUploading(false)
UploadFailedRemote(i) ==
  /\ uploadedFileId' = null
  /\ uploadedFileName' = null
  /\ fileName' = null
  /\ selectedFile' = null
  /\ base64File' = null
  /\ fileInputValue' = null
  /\ isUploading' = FALSE
  /\ pending' = Remove(pending, i)

\* the rejection that leaves the rejected file in the file input
RejectedFileInput_Kept == fileInputValue' = fileInputValue

\* alert(...); event.target.value = ""; return
RejectedFileInput == fileInputValue' = null

\* the change event of the file input with a file chosen; runs to the first await
handleFileUploadRemote(f) ==
  /\ impl = "remote"
  /\ ChangeFires(Some(f))
  /\ Len(pending) < MaxInflight
  /\ uploadedFileId' = null
  /\ uploadedFileName' = null
  /\ base64File' = null
  /\ IF ~IsAllowed(f)
     THEN /\ selectedFile' = null
          /\ fileName' = null
          /\ RejectedFileInput
          /\ last' = Ev("rejected", f.name)
          /\ UNCHANGED << isUploading, pending >>
     ELSE /\ selectedFile' = Some(f)
          /\ fileName' = Some(f.name)
          /\ isUploading' = TRUE
          /\ fileInputValue' = Some(f)
          /\ pending' = Append(pending, [ file |-> f, pc |-> "fetch" ])
          /\ last' = Ev("selected", f.name)
  /\ UNCHANGED << props, disabled, question, sendCount, lastSent >>

\* the change event with no file (the selection was cancelled)
handleFileUploadRemoteNoFile ==
  /\ impl = "remote"
  /\ ChangeFires(null)
  /\ uploadedFileId' = null
  /\ uploadedFileName' = null
  /\ base64File' = null
  /\ selectedFile' = null
  /\ fileName' = null
  /\ fileInputValue' = null
  /\ last' = Ev("cancelled", "")
  /\ UNCHANGED << props, disabled, question, isUploading, pending, sendCount, lastSent >>

\* await fetch(...) resolves with a response; ok is response.ok
FetchResolves(i, ok) ==
  /\ impl = "remote"
  /\ i \in DOMAIN pending
  /\ pending[i].pc = "fetch"
  /\ pending' = [ pending EXCEPT ![i].pc = IF ok THEN "json" ELSE "text" ]
  /\ last' = Ev("response", ok)
  /\ UNCHANGED << props, disabled, question, base64File, fileName, selectedFile,
                  uploadedFileId, uploadedFileName, isUploading, fileInputValue, sendCount, lastSent >>

\* await fetch(...) throws
FetchThrows(i) ==
  /\ impl = "remote"
  /\ i \in DOMAIN pending
  /\ pending[i].pc = "fetch"
  /\ UploadFailedRemote(i)
  /\ last' = Ev("uploadFailed", "fetch")
  /\ UNCHANGED << props, disabled, question, sendCount, lastSent >>

\* await response.json() resolves with result; then finally
JsonResolves(i, result) ==
  /\ impl = "remote"
  /\ i \in DOMAIN pending
  /\ pending[i].pc = "json"
  /\ uploadedFileId' = Some(result.file_id)
  /\ uploadedFileName' = Some(result.filename)
  /\ fileName' = Some(result.filename)
  /\ base64File' = null
  /\ isUploading' = FALSE
  /\ pending' = Remove(pending, i)
  /\ last' = Ev("uploaded", result)
  /\ UNCHANGED << props, disabled, question, selectedFile, fileInputValue, sendCount, lastSent >>

\* await response.json() throws
JsonThrows(i) ==
  /\ impl = "remote"
  /\ i \in DOMAIN pending
  /\ pending[i].pc = "json"
  /\ UploadFailedRemote(i)
  /\ last' = Ev("uploadFailed", "json")
  /\ UNCHANGED << props, disabled, question, sendCount, lastSent >>

\* await response.text() resolves (non-success status) or throws
TextSettles(i, thrown) ==
  /\ impl = "remote"
  /\ i \in DOMAIN pending
  /\ pending[i].pc = "text"
  /\ UploadFailedRemote(i)
  /\ last' = Ev("uploadFailed", IF thrown THEN "text" ELSE "status")
  /\ UNCHANGED << props, disabled, question, sendCount, lastSent >>

\* onClick={clearUploadedFile}
clearUploadedFile ==
  /\ ClearButtonRendered
  /\ uploadedFileId' = null
  /\ uploadedFileName' = null
  /\ fileName' = null
  /\ selectedFile' = null
  /\ base64File' = null
  /\ fileInputValue' = null
  /\ last' = Ev("cleared", "")
  /\ UNCHANGED << props, disabled, question, isUploading, pending, sendCount, lastSent >>

(***************************************************************************)
(* handleFileUpload and convertToBase64, inline revision                   *)
(***************************************************************************)
\* the change event with a file chosen; convertToBase64 starts the FileReader
handleFileUploadInline(f) ==
  /\ impl = "inline"
  /\ ChangeFires(Some(f))
  /\ Len(pending) < MaxInflight
  /\ IF ~IsAllowed(f)
     THEN /\ RejectedFileInput
          /\ fileName' = null
          /\ base64File' = null
          /\ selectedFile' = null
          /\ last' = Ev("rejected", f.name)
          /\ UNCHANGED pending
     ELSE /\ selectedFile' = Some(f)
          /\ fileName' = Some(f.name)
          /\ fileInputValue' = Some(f)
          /\ pending' = Append(pending, [ file |-> f, pc |-> "read" ])
          /\ last' = Ev("selected", f.name)
          /\ UNCHANGED base64File
  /\ UNCHANGED << props, disabled, question, uploadedFileId, uploadedFileName,
                  isUploading, sendCount, lastSent >>

\* the change event with no file: if (file) is false, nothing runs
handleFileUploadInlineNoFile ==
  /\ impl = "inline"
  /\ ChangeFires(null)
  /\ fileInputValue' = null
  /\ last' = Ev("cancelled", "")
  /\ UNCHANGED << props, disabled, question, base64File, fileName, selectedFile,
                  uploadedFileId, uploadedFileName, isUploading, pending, sendCount, lastSent >>

\* reader.onloadend: setBase64File(reader.result); the result is null if the read failed
ReaderLoadEnd(i, failed) ==
  /\ impl = "inline"
  /\ i \in DOMAIN pending
  /\ pending[i].pc = "read"
  /\ base64File' = IF failed THEN null ELSE Some(DataURL(pending[i].file))
  /\ pending' = Remove(pending, i)
  /\ last' = Ev("loadend", failed)
  /\ UNCHANGED << props, disabled, question, fileName, selectedFile, uploadedFileId,
                  uploadedFileName, isUploading, fileInputValue, sendCount, lastSent >>

(***************************************************************************)
(* The component                                                           *)
(***************************************************************************)
Next ==
  \/ SendClick
  \/ \E key \in Keys : SendKeyDown(key)
  \/ \E key \in Keys, shiftKey \in BOOLEAN, isComposing \in BOOLEAN :
       onEnterPress(key, shiftKey, isComposing)
  \/ \E newValue \in { Some(d) : d \in Drafts } \cup { null } : onQuestionChange(newValue)
  \/ HostSetsDisabled
  \/ \E f \in Files : handleFileUploadRemote(f)
  \/ handleFileUploadRemoteNoFile
  \/ \E i \in 1..MaxInflight, ok \in BOOLEAN : FetchResolves(i, ok)
  \/ \E i \in 1..MaxInflight : FetchThrows(i)
  \/ \E i \in 1..MaxInflight, result \in Replies : JsonResolves(i, result)
  \/ \E i \in 1..MaxInflight : JsonThrows(i)
  \/ \E i \in 1..MaxInflight, thrown \in BOOLEAN : TextSettles(i, thrown)
  \/ clearUploadedFile
  \/ \E f \in Files : handleFileUploadInline(f)
  \/ handleFileUploadInlineNoFile
  \/ \E i \in 1..MaxInflight, failed \in BOOLEAN : ReaderLoadEnd(i, failed)

Spec == Init /\ [][Next]_vars

(***************************************************************************)
(* The remote revision on its own, with a file store that answers           *)
(***************************************************************************)
\* the component of the remote revision after mount
InitRemote == Init /\ impl = "remote"

\* the handlers of the remote revision
NextRemote ==
  \/ SendClick
  \/ \E key \in Keys : SendKeyDown(key)
  \/ \E key \in Keys, shiftKey \in BOOLEAN, isComposing \in BOOLEAN :
       onEnterPress(key, shiftKey, isComposing)
  \/ \E newValue \in { Some(d) : d \in Drafts } \cup { null } : onQuestionChange(newValue)
  \/ HostSetsDisabled
  \/ \E f \in Files : handleFileUploadRemote(f)
  \/ handleFileUploadRemoteNoFile
  \/ \E i \in 1..MaxInflight, ok \in BOOLEAN : FetchResolves(i, ok)
  \/ \E i \in 1..MaxInflight : FetchThrows(i)
  \/ \E i \in 1..MaxInflight, result \in Replies : JsonResolves(i, result)
  \/ \E i \in 1..MaxInflight : JsonThrows(i)
  \/ \E i \in 1..MaxInflight, thrown \in BOOLEAN : TextSettles(i, thrown)
  \/ clearUploadedFile

\* the continuation of handleFileUpload after one of its awaits settles: the
\* fetch, response.json() or response.text() promise resolves or rejects
UploadProgress ==
  \/ \E i \in 1..MaxInflight, ok \in BOOLEAN : FetchResolves(i, ok)
  \/ \E i \in 1..MaxInflight : FetchThrows(i)
  \/ \E i \in 1..MaxInflight, result \in Replies : JsonResolves(i, result)
  \/ \E i \in 1..MaxInflight : JsonThrows(i)
  \/ \E i \in 1..MaxInflight, thrown \in BOOLEAN : TextSettles(i, thrown)

\* the remote revision with a file store whose promises all settle: a pending
\* await of handleFileUpload is eventually continued by the event loop
LiveSpec == InitRemote /\ [][NextRemote]_vars /\ WF_vars(UploadProgress)

(***************************************************************************)
(* File selection on its own, over more file names and allow-lists         *)
(***************************************************************************)
s_nodot == << "p", "d", "f" >>
s_twodots == << "a", ".", "b", ".", "P", "n", "G" >>
s_enddot == << "a", "." >>
al_default == << ".", "p", "d", "f", ",", ".", "p", "n", "g" >>
al_spaced == << ".", "p", "d", "f", ",", " ", ".", "p", "n", "g" >>
al_upper == << ".", "P", "N", "G" >>
al_bare == << "p", "d", "f", ",", "." >>

\* file names with one dot, no dot, two dots, a trailing dot, upper case
ValidatorFiles ==
  Files \cup
  { [ name |-> s_nodot, type |-> t_pdf, body |-> "pdf-bytes" ],
    [ name |-> s_twodots, type |-> t_png, body |-> "png-bytes" ],
    [ name |-> s_enddot, type |-> t_exe, body |-> "exe-bytes" ] }

\* allow-lists: the usual one, empty, with a space after the comma, in upper
\* case, with an entry that has no dot and one that is a dot only
ValidatorAllowLists == { al_default, << >>, al_spaced, al_upper, al_bare }

\* the component as mounted, with the file input rendered
InitValidator ==
  /\ impl \in { "remote", "inline" }
  /\ disabled = FALSE
  /\ clearOnSend = FALSE
  /\ conversationId = null
  /\ allowedFileExtensions \in ValidatorAllowLists
  /\ OYD_ENABLED = FALSE
  /\ question = << >>
  /\ base64File = null
  /\ fileName = null
  /\ selectedFile = null
  /\ uploadedFileId = null
  /\ uploadedFileName = null
  /\ isUploading = FALSE
  /\ fileInputValue = null
  /\ pending = << >>
  /\ sendCount = 0
  /\ lastSent = null
  /\ last = Ev("mount", "")

\* the change handler of the file input, the steps that end a transfer and
\* the clear button
NextValidator ==
  \/ \E f \in ValidatorFiles : handleFileUploadRemote(f)
  \/ handleFileUploadRemoteNoFile
  \/ UploadProgress
  \/ clearUploadedFile
  \/ \E f \in ValidatorFiles : handleFileUploadInline(f)
  \/ handleFileUploadInlineNoFile
  \/ \E i \in 1..MaxInflight, failed \in BOOLEAN : ReaderLoadEnd(i, failed)

ValidatorSpec == InitValidator /\ [][NextValidator]_vars

(***************************************************************************)
(* Vocabulary of the properties                                            *)
(***************************************************************************)
\* the draft is empty or made of whitespace only
IsBlank(s) == \A i \in DOMAIN s : s[i] \in WhiteSpace

\* the attachment is Empty: nothing of any file is held
AttachmentEmpty ==
  /\ uploadedFileId = null
  /\ uploadedFileName = null
  /\ fileName = null
  /\ selectedFile = null
  /\ base64File = null

\* the attachment is Ready: a successful upload has set the id and the name
AttachmentReady ==
  impl = "remote" /\ TruthyTok(uploadedFileId) /\ Truthy(uploadedFileName)

\* name has an extension listed in the allow-list: the characters after its
\* last "." (all of it if it has none), lower-cased and prefixed with ".",
\* are one of the comma-separated entries of the list
ExtensionListed(name) ==
  \E k \in 0..Len(name) :
     /\ k > 0 => name[k] = "."
     /\ k = 0 => \A j \in DOMAIN name : name[j] # "."
     /\ \A j \in (k + 1)..Len(name) : name[j] # "."
     /\ \E lo \in 1..(Len(allowedFileExtensions) + 1), hi \in 0..Len(allowedFileExtensions) :
          /\ lo <= hi + 1
          /\ lo = 1 \/ allowedFileExtensions[lo - 1] = ","
          /\ hi = Len(allowedFileExtensions) \/ allowedFileExtensions[hi + 1] = ","
          /\ \A j \in lo..hi : allowedFileExtensions[j] # ","
          /\ hi - lo + 1 = Len(name) - k + 1
          /\ allowedFileExtensions[lo] = "."
          /\ \A j \in 1..(Len(name) - k) :
               allowedFileExtensions[lo + j] = ToLowerCase(name)[k + j]

\* the events that call sendQuestion
SendTriggers == { "click", "sendKey", "textKey" }

\* this step called onSend
OnSendCalled == sendCount' # sendCount \/ lastSent' # lastSent

\* this step called onSend exactly once
SubmissionAccepted == sendCount' = sendCount + 1

(***************************************************************************)
(* C1. With a draft that is empty or whitespace only, no step calls onSend, *)
(* whichever trigger is used and whatever the attachment is (both          *)
(* revisions).                                                             *)
(***************************************************************************)
C1_BlankDraftNeverSends ==
  [][ IsBlank(question) => ~OnSendCalled ]_vars

\* a trigger was refused on a whitespace-only draft although a file is attached
C1_Witness ==
  /\ last.op \in SendTriggers
  /\ last.arg = "refused"
  /\ question = << " " >>
  /\ ~disabled
  /\ ~isUploading
  /\ sendCount = 0
  /\ (AttachmentReady \/ base64File # null)

(***************************************************************************)
(* C2. Remote revision: while isUploading is true no step calls onSend:    *)
(* a trigger is refused, and neither the completion nor the failure of the *)
(* upload sends anything, so the refused submission is not queued.         *)
(***************************************************************************)
C2_NoSendWhileUploading ==
  [][ (impl = "remote" /\ isUploading) => ~OnSendCalled ]_vars

\* a trigger was refused during an upload with a sendable draft
C2_Witness ==
  /\ impl = "remote"
  /\ last.op \in { "click", "sendKey" }
  /\ last.arg = "refused"
  /\ isUploading
  /\ ~IsBlank(question)
  /\ ~disabled
  /\ sendCount = 0

(***************************************************************************)
(* C3. Remote revision: the id and name of a Ready attachment are the ones *)
(* the file store returned, and a submission accepted while the attachment *)
(* is Ready hands onSend exactly [text part with the draft verbatim, file  *)
(* part with that id and that name], in this order.                        *)
(***************************************************************************)
C3_ReadyContent ==
  [][ /\ last'.op = "uploaded" =>
           /\ uploadedFileId' = Some(last'.arg.file_id)
           /\ uploadedFileName' = Some(last'.arg.filename)
      /\ (uploadedFileId' # uploadedFileId \/ uploadedFileName' # uploadedFileName) =>
           \/ (uploadedFileId' = null /\ uploadedFileName' = null)
           \/ last'.op = "uploaded"
      /\ (SubmissionAccepted /\ AttachmentReady) =>
           Val(lastSent').content =
             [ isArray |-> TRUE,
               parts |-> << [ type |-> "text", text |-> question ],
                            [ type |-> "file",
                              file |-> [ file_id |-> Val(uploadedFileId),
                                         name |-> Val(uploadedFileName) ] ] >> ]
    ]_vars

\* a message with the draft and the reference of the store has been sent
C3_Witness ==
  /\ impl = "remote"
  /\ last.op \in SendTriggers
  /\ last.arg = "sent"
  /\ sendCount = 1
  /\ Val(lastSent).content.isArray
  /\ Val(lastSent).content.parts[1].text = s_hi
  /\ Val(lastSent).content.parts[2].file.file_id = "f2"
  /\ Val(lastSent).content.parts[2].file.name = s_srv

(***************************************************************************)
(* C4. Both revisions: a submission accepted while the attachment is Empty *)
(* hands onSend the draft as a plain string.                               *)
(***************************************************************************)
C4_EmptyAttachmentPlainString ==
  [][ (SubmissionAccepted /\ AttachmentEmpty) =>
        Val(lastSent').content = [ isArray |-> FALSE, text |-> question ] ]_vars

\* a second message has been sent, and it was text only
C4_Witness ==
  /\ last.op \in SendTriggers
  /\ last.arg = "sent"
  /\ sendCount = 2
  /\ ~Val(lastSent).content.isArray
  /\ Val(lastSent).content.text = s_hi

(***************************************************************************)
(* C5. Both revisions: after every accepted submission the attachment is   *)
(* Empty, and the draft is "" if clearOnSend is set and unchanged if not.  *)
(***************************************************************************)
C5_ResetAfterSend ==
  [][ SubmissionAccepted =>
        /\ AttachmentEmpty'
        /\ question' = IF clearOnSend THEN << >> ELSE question ]_vars

\* a message with an attachment has been sent and the draft was kept
C5_Witness ==
  /\ last.op \in SendTriggers
  /\ last.arg = "sent"
  /\ sendCount > 0
  /\ Val(lastSent).content.isArray
  /\ ~clearOnSend
  /\ question = s_hi
  /\ AttachmentEmpty

(***************************************************************************)
(* C6. Both revisions: whenever the attachment is Empty and no transfer is *)
(* in flight, the file input holds no selection, so that choosing the same *)
(* file again fires the change handler.                                    *)
(***************************************************************************)
C6_FileInputClearedWhenEmpty ==
  (AttachmentEmpty /\ pending = << >> /\ ~isUploading) => fileInputValue = null

\* the same statement for the remote revision alone
C6_RemoteOnly ==
  impl = "remote" => C6_FileInputClearedWhenEmpty

(***************************************************************************)
(* C7. A key press in the text field (both revisions).  An Enter pressed   *)
(* during IME composition or with Shift held never calls onSend.  A plain  *)
(* Enter with a non-blank draft and no transfer in flight calls onSend     *)
(* exactly once: as stated, whatever the prop disabled is.                 *)
(***************************************************************************)
\* no key press that is composing or shifted calls onSend
C7_ModifiedEnterNeverSends ==
  \A key \in Keys, shiftKey \in BOOLEAN, isComposing \in BOOLEAN :
     (shiftKey \/ isComposing) =>
        ~ENABLED (onEnterPress(key, shiftKey, isComposing) /\ OnSendCalled)

\* a plain Enter calls onSend exactly once, and can do nothing else
C7_PlainEnterSendsOnce ==
  /\ sendCount < MaxSends => ENABLED (onEnterPress("Enter", FALSE, FALSE) /\ SubmissionAccepted)
  /\ ~ENABLED (onEnterPress("Enter", FALSE, FALSE) /\ ~SubmissionAccepted)

C7_Original ==
  /\ C7_ModifiedEnterNeverSends
  /\ (~IsBlank(question) /\ ~isUploading /\ pending = << >>) => C7_PlainEnterSendsOnce

(***************************************************************************)
(* C7, amended.  An Enter pressed during IME composition or with Shift     *)
(* held never calls onSend.  A plain Enter with a non-blank draft, no      *)
(* transfer in flight and the prop disabled false calls onSend exactly     *)
(* once.                                                                   *)
(***************************************************************************)
C7_EnterKey ==
  /\ C7_ModifiedEnterNeverSends
  /\ (~IsBlank(question) /\ ~isUploading /\ pending = << >> /\ ~disabled) =>
        C7_PlainEnterSendsOnce

\* a plain Enter in the text field has sent the one message sent so far
C7_Witness ==
  /\ last = Ev("textKey", "sent")
  /\ sendCount = 1
  /\ lastSent # null

(***************************************************************************)
(* C8. Remote revision: the file input is disabled exactly when            *)
(* isUploading is true, no file-selection event can occur while an upload  *)
(* is in flight, and at most one upload is outstanding at any time.        *)
(***************************************************************************)
C8_OneUploadAtATime ==
  impl = "remote" =>
    /\ FileInputDisabled <=> isUploading
    /\ isUploading <=> pending # << >>
    /\ Len(pending) <= 1
    /\ isUploading =>
         /\ \A f \in Files : ~ENABLED handleFileUploadRemote(f)
         /\ ~ENABLED handleFileUploadRemoteNoFile

\* an upload is in flight, started by the selection just made
C8_Witness ==
  /\ impl = "remote"
  /\ last.op = "selected"
  /\ isUploading
  /\ Len(pending) = 1
  /\ fileInputValue # null

(***************************************************************************)
(* C9. Both revisions: when handleFileUpload rejects a file (its extension *)
(* is not in the allow-list), the attachment is Empty afterwards, the file *)
(* input is cleared, no upload or read is started and onSend is not        *)
(* called, whatever the attachment was before.                             *)
(***************************************************************************)
C9_RejectionClearsAttachment ==
  [][ ( /\ last'.op \in { "selected", "rejected" }
        /\ \E f \in Files : f.name = last'.arg /\ ~ExtensionListed(f.name) ) =>
        /\ last'.op = "rejected"
        /\ AttachmentEmpty'
        /\ fileInputValue' = null
        /\ pending' = pending
        /\ isUploading' = isUploading
        /\ ~OnSendCalled ]_vars

\* a file has been rejected while nothing else was in flight
C9_Witness ==
  /\ last.op = "rejected"
  /\ last.arg = s_exe
  /\ allowedFileExtensions # << >>
  /\ AttachmentEmpty
  /\ pending = << >>

(***************************************************************************)
(* C10. Remote revision: when an upload ends with a non-success response   *)
(* or with an exception (thrown by fetch or while reading the body), every *)
(* attachment field is null, the file input is cleared, isUploading is     *)
(* false and the draft is unchanged.                                       *)
(***************************************************************************)
C10_UploadFailureClearsAll ==
  [][ last'.op = "uploadFailed" =>
        /\ AttachmentEmpty'
        /\ fileInputValue' = null
        /\ ~isUploading'
        /\ question' = question ]_vars

\* an upload has failed while reading the body of a success response
C10_Witness ==
  /\ last.op = "uploadFailed"
  /\ last.arg = "json"
  /\ question = s_hi
  /\ AttachmentEmpty
  /\ ~isUploading

(***************************************************************************)
(* C11. Both revisions: once the change handler has run for a newly        *)
(* selected (accepted) file, the attachment holds nothing of an earlier    *)
(* file: no reference id, no uploaded name, no encoded data, and the       *)
(* displayed name and the selected file are those of the new file.         *)
(***************************************************************************)
C11_NewSelectionDiscardsPrevious ==
  last.op = "selected" =>
    /\ uploadedFileId = null
    /\ uploadedFileName = null
    /\ base64File = null
    /\ fileName = Some(last.arg)
    /\ selectedFile # null
    /\ Val(selectedFile).name = last.arg

\* the same statement for the remote revision alone
C11_RemoteOnly ==
  impl = "remote" => C11_NewSelectionDiscardsPrevious

(***************************************************************************)
(* C12. Inline revision: a submission accepted while the attachment is     *)
(* InlineReady hands onSend [text part with the draft, image part with the *)
(* encoded data] if the media type of the selected file starts with        *)
(* "image/", and [text part with the draft, file part with the encoded     *)
(* data and the file name] otherwise.                                      *)
(***************************************************************************)
\* the attachment is InlineReady: encoded data, selected file and name are held
AttachmentInlineReady ==
  impl = "inline" /\ base64File # null /\ selectedFile # null /\ fileName # null

\* the media type denotes an image
IsImageType(type) ==
  /\ Len(type) >= 6
  /\ type[1] = "i" /\ type[2] = "m" /\ type[3] = "a"
  /\ type[4] = "g" /\ type[5] = "e" /\ type[6] = "/"

C12_InlineReadyContent ==
  [][ (SubmissionAccepted /\ AttachmentInlineReady) =>
        Val(lastSent').content =
          [ isArray |-> TRUE,
            parts |-> << [ type |-> "text", text |-> question ],
                         IF IsImageType(Val(selectedFile).type)
                         THEN [ type |-> "image_url",
                                image_url |-> [ url |-> Val(base64File) ] ]
                         ELSE [ type |-> "file",
                                file |-> [ url |-> Val(base64File),
                                           name |-> Val(fileName) ] ] >> ]
    ]_vars

\* a message with an image part has been sent
C12_Witness ==
  /\ impl = "inline"
  /\ last.op \in SendTriggers
  /\ last.arg = "sent"
  /\ Val(lastSent).content.isArray
  /\ Val(lastSent).content.parts[1].text = s_hi
  /\ Val(lastSent).content.parts[2].type = "image_url"
  /\ Val(lastSent).content.parts[2].image_url.url =
       << "data:", t_png, ";base64,", "png-bytes" >>

(***************************************************************************)
(* C13. A refused submission has no side effects: when a trigger calls     *)
(* sendQuestion while the draft is blank, an upload is in flight or the    *)
(* prop disabled is true, the draft, every attachment field, isUploading   *)
(* and the file input are left as they were and onSend is not called.      *)
(***************************************************************************)
\* what a refused submission must leave alone
ComposerState ==
  << question, base64File, fileName, selectedFile, uploadedFileId, uploadedFileName,
     isUploading, fileInputValue, pending >>

\* a step of one of the three triggers
TriggerStep ==
  \/ SendClick
  \/ \E key \in Keys : SendKeyDown(key)
  \/ \E key \in Keys, shiftKey \in BOOLEAN, isComposing \in BOOLEAN :
       onEnterPress(key, shiftKey, isComposing)

C13_RefusedSendHasNoEffect ==
  (disabled \/ IsBlank(question) \/ isUploading) =>
     ~ENABLED (TriggerStep /\ (OnSendCalled \/ ComposerState' # ComposerState))

\* a click was refused during an upload and the selection is still in place
C13_Witness ==
  /\ last = Ev("click", "refused")
  /\ isUploading
  /\ ~disabled
  /\ question = s_hi
  /\ selectedFile # null
  /\ fileInputValue # null
  /\ Len(pending) = 1
  /\ sendCount = 0

(***************************************************************************)
(* C14. Remote revision, file store that eventually responds or throws:    *)
(* whenever an upload is in flight (isUploading is true), a state follows  *)
(* in which isUploading is false, no request is outstanding, the           *)
(* attachment is Ready or Empty, the text field and the file input are     *)
(* enabled again, and a file can be selected.                              *)
(***************************************************************************)
C14_UploadEventuallyEnds ==
  isUploading ~>
    /\ ~isUploading
    /\ pending = << >>
    /\ AttachmentReady \/ AttachmentEmpty
    /\ ~TextFieldDisabled
    /\ ~FileInputDisabled
    /\ \E f \in Files : ENABLED handleFileUploadRemote(f)

\* an upload that was started has ended on a non-success status, and the
\* controls are enabled again
C14_Witness ==
  /\ impl = "remote"
  /\ last = Ev("uploadFailed", "status")
  /\ ~isUploading
  /\ pending = << >>
  /\ AttachmentEmpty
  /\ ~TextFieldDisabled
  /\ ~FileInputDisabled

(***************************************************************************)
(* C15. Remote revision: the text field is disabled exactly when           *)
(* isUploading is true, and no step that starts an upload, is taken during *)
(* one or ends one changes the draft; so the draft at the end of an upload *)
(* (success or failure) is the draft at its start.                         *)
(***************************************************************************)
C15_DraftFrozenWhileUploading ==
  [][ impl = "remote" =>
        /\ TextFieldDisabled <=> isUploading
        /\ (isUploading \/ isUploading') => question' = question ]_vars

\* an upload has just succeeded with a draft typed before it started
C15_Witness ==
  /\ impl = "remote"
  /\ last.op = "uploaded"
  /\ question = s_hi
  /\ ~isUploading
  /\ ~TextFieldDisabled

(***************************************************************************)
(* C16. Both revisions, every reachable state: the send control is         *)
(* rendered disabled (sendQuestionDisabled) exactly when an activation of  *)
(* it is refused, that is when sendQuestion returns at its guard and a     *)
(* click cannot call onSend; and it is rendered disabled whenever the      *)
(* draft is blank or an upload is in flight.                               *)
(***************************************************************************)
C16_DisabledIffRefused ==
  /\ sendQuestionDisabled <=> SendRefused
  /\ sendCount < MaxSends =>
       (sendQuestionDisabled <=> ~ENABLED (SendClick /\ OnSendCalled))
  /\ (IsBlank(question) \/ isUploading) => sendQuestionDisabled

\* the control is rendered disabled only because an upload is in flight, and
\* the click just made was refused
C16_Witness ==
  /\ impl = "remote"
  /\ last = Ev("click", "refused")
  /\ sendQuestionDisabled
  /\ isUploading
  /\ ~disabled
  /\ ~IsBlank(question)
  /\ sendCount = 1

(***************************************************************************)
(* C17. Both revisions: a selected file is accepted if and only if "."     *)
(* followed by the lower-cased characters after the last "." of its name   *)
(* (the whole name if it has no ".") is one of the entries of the          *)
(* allow-list split on ",". So a name without "." is tested as "." plus    *)
(* the lower-cased name, entries are compared as written (not trimmed, not *)
(* case-folded), and an empty allow-list rejects every file.               *)
(***************************************************************************)
C17_ValidatorAccepts ==
  last.op \in { "selected", "rejected" } =>
    /\ last.op = "selected" <=> ExtensionListed(last.arg)
    /\ (last.arg = s_nodot /\ allowedFileExtensions = al_default) => last.op = "selected"
    /\ (last.arg = s_nodot /\ allowedFileExtensions = al_bare) => last.op = "rejected"
    /\ (last.arg = s_png /\ allowedFileExtensions = al_spaced) => last.op = "rejected"
    /\ (last.arg = s_png /\ allowedFileExtensions = al_upper) => last.op = "rejected"
    /\ (last.arg = s_twodots /\ allowedFileExtensions = al_default) => last.op = "selected"
    /\ allowedFileExtensions = << >> => last.op = "rejected"

\* a file whose name has no "." has been accepted because "." plus its name
\* is an entry of the allow-list
C17_Witness ==
  /\ last = Ev("selected", s_nodot)
  /\ allowedFileExtensions = al_default
  /\ selectedFile # null

(***************************************************************************)
(* C18. Inline revision: whenever onSend is handed an inline part, the     *)
(* data URL in it is that of the selected file, the file whose media type  *)
(* chose the kind of the part and whose name labels a file part.           *)
(***************************************************************************)
C18_InlinePartOfOneFile ==
  [][ (impl = "inline" /\ SubmissionAccepted /\ Val(lastSent').content.isArray) =>
        LET part == Val(lastSent').content.parts[2]
            f == Val(selectedFile)
        IN  IF part.type = "image_url"
            THEN IsImageType(f.type) /\ part.image_url.url = DataURL(f)
            ELSE /\ ~IsImageType(f.type)
                 /\ part.file.name = f.name
                 /\ part.file.url = DataURL(f) ]_vars

(***************************************************************************)
(* C19. Remote revision: a reference id is handed to onSend at most once   *)
(* per successful upload. A message carries an id only if it is the one    *)
(* the attachment holds, and sending it removes it; clearing the           *)
(* attachment, a new selection (accepted or rejected) and a cancelled      *)
(* selection remove it too; and only the success of an upload puts an id   *)
(* into the attachment. So between two messages that carry an id, and      *)
(* between a removal and a message that carries one, an upload succeeds.   *)
(***************************************************************************)
C19_ReferenceSentOnce ==
  [][ impl = "remote" =>
        /\ (SubmissionAccepted /\ Val(lastSent').content.isArray) =>
              /\ uploadedFileId # null
              /\ Val(lastSent').content.parts[2].file.file_id = Val(uploadedFileId)
        /\ SubmissionAccepted => uploadedFileId' = null
        /\ last'.op \in { "cleared", "selected", "rejected", "cancelled" } =>
              uploadedFileId' = null
        /\ last'.op # "uploaded" =>
              (uploadedFileId' = null \/ uploadedFileId' = uploadedFileId) ]_vars

\* the id of an upload has been sent in a message and is no longer held
C19_Witness ==
  /\ impl = "remote"
  /\ last.op \in SendTriggers
  /\ last.arg = "sent"
  /\ Val(lastSent).content.isArray
  /\ Val(lastSent).content.parts[2].file.file_id = "f2"
  /\ uploadedFileId = null
  /\ sendCount = 2

(***************************************************************************)
(* C20. Both revisions: while disabled is true, no click on the send       *)
(* control, no key on it and no key in the text field can call onSend,     *)
(* whatever the draft and the attachment are, or change the draft or any   *)
(* attachment field.                                                       *)
(***************************************************************************)
C20_DisabledBlocksEveryTrigger ==
  disabled =>
    /\ SendRefused
    /\ ~ENABLED (TriggerStep /\ OnSendCalled)
    /\ ~ENABLED (TriggerStep /\ question' # question)
    /\ ~ENABLED (TriggerStep /\
                   << base64File, fileName, selectedFile, uploadedFileId, uploadedFileName >>' #
                   << base64File, fileName, selectedFile, uploadedFileId, uploadedFileName >>)

\* the host passes disabled = true, the draft is not blank, the attachment is
\* Ready, and Enter in the text field was just refused
C20_Witness ==
  /\ disabled
  /\ last = Ev("textKey", "refused")
  /\ question = s_hi
  /\ AttachmentReady
  /\ ~isUploading
  /\ sendCount = 0

====
